---- MODULE Spec2Model ----
(***************************************************************************)
(* Coverage-based stock price cache: CacheManager (src/cache_manager.py)   *)
(* and StockDataService / DataFetcher (src/data_fetching/data_fetcher.py). *)
(*                                                                         *)
(* Dates are day numbers.  A ticker and a period are strings, modelled as  *)
(* sequences of one-character strings so that upper(), strip(), endswith() *)
(* and int() are computed, not assumed.  The stock_data table is the set   *)
(* `store` of its rows; the AUTOINCREMENT id column is read by no query    *)
(* and is left out.  The OHLCV columns of a bar are one value `val`.       *)
(* cached_at is the day and the tick of the day at which datetime.now()    *)
(* was read: a tick is a fraction of a second, and at least one tick       *)
(* passes between two writes.                                              *)
(*                                                                         *)
(* One caller is modelled: a call runs to its end before the next begins.  *)
(* Every statement sent to SQLite either succeeds or raises.               *)
(***************************************************************************)
EXTENDS Integers, Sequences, FiniteSets, TLC

\* ---- bounds ----
MaxDay == 2
MaxVal == 2
MaxCalls == 2
\* ticks of a day that pass while no call runs, and ticks in one second
MaxTick == 2
TicksPerSecond == 2

Dates == 0..MaxDay
Vals == 1..MaxVal

\* ---- program constants ----
DaysPerYear == 365
DaysPerMonth == 30
MinPeriodLen == 2
valid_intervals == {"1d", "1wk", "1mo"}

\* ---- inputs ----
\* keys the cache is called with directly
CacheKeys == { <<<<"A">>, "1d">>, <<<<"A">>, "1wk">>, <<<<"B">>, "1d">> }

VARIABLES store, today, clock, pc, req, last, pre, ncalls, other

vars == <<store, today, clock, pc, req, last, pre, ncalls, other>>

\* ---------------------------------------------------------------------
\* Helpers on sets and sequences
\* ---------------------------------------------------------------------
SetMin(S) == CHOOSE x \in S : \A y \in S : x <= y
SetMax(S) == CHOOSE x \in S : \A y \in S : x >= y

RECURSIVE SortedSeq(_)
SortedSeq(S) == IF S = {} THEN <<>>
                ELSE <<SetMin(S)>> \o SortedSeq(S \ {SetMin(S)})

\* A DataFrame: rows in ascending index order, one bar per day.  The bars
\* of one batch carry the batch's value v (one adjusted price series).
MkDf(S, v) == [n \in 1..Cardinality(S) |-> [date |-> SortedSeq(S)[n], val |-> v]]

DataFramesOn(D) == { MkDf(S, v) : S \in SUBSET D, v \in Vals }
DataFrames == DataFramesOn(Dates)

DfDates(df) == { df[n].date : n \in DOMAIN df }

\* Optional[pd.DataFrame]
None == [some |-> FALSE, rows |-> <<>>]
Some(df) == [some |-> TRUE, rows |-> df]

\* datetime.now(): the day, and the tick of the day; no two writes share one
Stamp(d, c) == [day |-> d, seq |-> c]

\* timestamps in chronological order; isoformat() strings compare the same
Earlier(a, b) == a.day < b.day \/ (a.day = b.day /\ a.seq < b.seq)

\* ---------------------------------------------------------------------
\* CacheManager: queries and statements
\* ---------------------------------------------------------------------
KeyRows(st, t, i) == { r \in st : r.ticker = t /\ r.interval = i }

\* _dataframe_to_rows: one tuple per DataFrame row, all stamped with the
\* cached_at read once before the loop.
DataframeToRows(df, at) ==
  [n \in DOMAIN df |-> [date |-> df[n].date, val |-> df[n].val, cached_at |-> at]]

\* slip: a plain INSERT on a table without the UNIQUE constraint
InsertPlain(st, t, i, row) ==
  st \cup { [ticker |-> t, interval |-> i, date |-> row.date,
             val |-> row.val, cached_at |-> row.cached_at] }

\* slip: INSERT OR IGNORE, the stored row wins
InsertOrIgnore(st, t, i, row) ==
  IF \E r \in st : r.ticker = t /\ r.interval = i /\ r.date = row.date
  THEN st
  ELSE InsertPlain(st, t, i, row)

\* INSERT OR REPLACE under UNIQUE(ticker, interval, date): the conflicting
\* row is deleted, the new one inserted.
InsertOrReplace(st, t, i, row) ==
  { r \in st : ~(r.ticker = t /\ r.interval = i /\ r.date = row.date) }
    \cup { [ticker |-> t, interval |-> i, date |-> row.date,
            val |-> row.val, cached_at |-> row.cached_at] }

\* the for-loop of cache_data, in DataFrame order
RECURSIVE InsertAll(_, _, _, _)
InsertAll(st, t, i, rows) ==
  IF DOMAIN rows = {} THEN st
  ELSE InsertAll(InsertOrReplace(st, t, i, Head(rows)), t, i, Tail(rows))

NoRange == <<>>

\* slip: the range is remembered from the table as it was when the call began
GetCachedDateRangeAtStart(st, t, i) ==
  IF KeyRows(pre, t, i) = {} THEN NoRange
  ELSE << SetMin({ r.date : r \in KeyRows(pre, t, i) }),
          SetMax({ r.date : r \in KeyRows(pre, t, i) }) >>

\* _get_cached_date_range: SELECT MIN(date), MAX(date) WHERE ticker, interval
GetCachedDateRange(st, t, i) ==
  IF KeyRows(st, t, i) = {} THEN NoRange
  ELSE << SetMin({ r.date : r \in KeyRows(st, t, i) }),
          SetMax({ r.date : r \in KeyRows(st, t, i) }) >>

\* slip: strict comparisons, equal boundary dates do not count
CheckDataCoverageStrict(st, t, i, s, e) ==
  LET cached_range == GetCachedDateRange(st, t, i) IN
  IF cached_range = NoRange THEN FALSE
  ELSE cached_range[1] < s /\ cached_range[2] > e

\* slip: any stored row of the key counts as coverage
CheckDataCoverageAny(st, t, i, s, e) == GetCachedDateRange(st, t, i) # NoRange

\* _check_data_coverage
CheckDataCoverage(st, t, i, s, e) ==
  LET cached_range == GetCachedDateRange(st, t, i) IN
  IF cached_range = NoRange THEN FALSE
  ELSE cached_range[1] <= s /\ cached_range[2] >= e

\* ... ORDER BY date ASC
RECURSIVE OrderByDate(_)
OrderByDate(R) ==
  IF R = {} THEN <<>>
  ELSE LET m == CHOOSE r \in R : \A q \in R : r.date <= q.date
       IN <<m>> \o OrderByDate(R \ {m})

\* slip: rows cached on an earlier day have expired
QueryRowsCachedToday(st, t, i, s, e) ==
  LET R == { r \in KeyRows(st, t, i) :
               r.date >= s /\ r.date <= e /\ r.cached_at.day = today }
  IN OrderByDate(R)

\* slip: the upper bound of the window is left out of the query
QueryRowsFromStart(st, t, i, s, e) ==
  OrderByDate({ r \in KeyRows(st, t, i) : r.date >= s })

\* SELECT ... WHERE ticker, interval AND date >= DATE(s) AND date <= DATE(e)
QueryRows(st, t, i, s, e) ==
  OrderByDate({ r \in KeyRows(st, t, i) : r.date >= s /\ r.date <= e })

\* _rows_to_dataframe: cached_at is dropped, the index is the date
RowsToDataframe(rows) ==
  [n \in DOMAIN rows |-> [date |-> rows[n].date, val |-> rows[n].val]]

\* ---------------------------------------------------------------------
\* DataFetcher: parameter validation and the date window
\* ---------------------------------------------------------------------
Lower == <<"a", "b">>
Upper == <<"A", "B">>
Digits == <<"0", "1", "2", "3", "4", "5", "6", "7", "8", "9">>

Index(c, s) == CHOOSE n \in DOMAIN s : s[n] = c
InSeq(c, s) == \E n \in DOMAIN s : s[n] = c

\* str.upper()
UpperChar(c) == IF InSeq(c, Lower) THEN Upper[Index(c, Lower)] ELSE c
StrUpper(s) == [n \in DOMAIN s |-> UpperChar(s[n])]

\* str.strip()
RECURSIVE LStrip(_)
LStrip(s) == IF DOMAIN s # {} /\ Head(s) = " " THEN LStrip(Tail(s)) ELSE s
RECURSIVE RStrip(_)
RStrip(s) == IF DOMAIN s # {} /\ s[Len(s)] = " "
             THEN RStrip(SubSeq(s, 1, Len(s) - 1)) ELSE s
StrStrip(s) == RStrip(LStrip(s))

\* str.endswith(suffix)
EndsWith(s, suf) ==
  /\ Len(s) >= Len(suf)
  /\ SubSeq(s, Len(s) - Len(suf) + 1, Len(s)) = suf

\* int(text) on decimal digits; anything else raises ValueError
IsInt(s) == Len(s) > 0 /\ \A n \in DOMAIN s : InSeq(s[n], Digits)
RECURSIVE ParseInt(_)
ParseInt(s) == IF DOMAIN s = {} THEN 0
               ELSE 10 * ParseInt(SubSeq(s, 1, Len(s) - 1))
                    + (Index(s[Len(s)], Digits) - 1)

\* slip: the interval is not checked
ValidParametersAnyInterval(ticker, period, interval) ==
  /\ Len(ticker) > 0
  /\ Len(period) >= MinPeriodLen

\* _validate_parameters: does it return (TRUE) or raise ValueError (FALSE)
ValidParameters(ticker, period, interval) ==
  /\ Len(ticker) > 0
  /\ interval \in valid_intervals
  /\ Len(period) >= MinPeriodLen

\* _validate_parameters: the ticker it returns
NormalTicker(ticker) == StrStrip(StrUpper(ticker))

\* _calculate_date_range: the number part of the period, and its unit in days
PeriodNumber(period) ==
  IF EndsWith(period, <<"y">>) THEN SubSeq(period, 1, Len(period) - 1)
  ELSE IF EndsWith(period, <<"m", "o">>) THEN SubSeq(period, 1, Len(period) - 2)
  ELSE SubSeq(period, 1, Len(period) - 1)

PeriodUnit(period) ==
  IF EndsWith(period, <<"y">>) THEN DaysPerYear
  ELSE IF EndsWith(period, <<"m", "o">>) THEN DaysPerMonth
  ELSE 1

\* _calculate_date_range: does it return (TRUE) or raise ValueError (FALSE)
PeriodParses(period) ==
  /\ \/ EndsWith(period, <<"y">>)
     \/ EndsWith(period, <<"m", "o">>)
     \/ EndsWith(period, <<"d">>)
  /\ IsInt(PeriodNumber(period))

\* _calculate_date_range: (start_date, end_date)
CalculateDateRange(period, day) ==
  << day - ParseInt(PeriodNumber(period)) * PeriodUnit(period), day >>

\* ---------------------------------------------------------------------
\* State
\* ---------------------------------------------------------------------
\* The call in progress (req) and the last completed call (last.call):
\* its arguments, and what it has done so far.
NoCall == [op |-> "none", ticker |-> <<>>, interval |-> "", period |-> <<>>,
           start |-> 0, end |-> 0, force |-> FALSE, phase |-> "",
           looked |-> FALSE, look1 |-> None, nfetch |-> 0, fetched |-> FALSE,
           df |-> <<>>, putok |-> FALSE, fault |-> FALSE, source |-> "",
           dup |-> FALSE, after |-> "", putdf |-> <<>>, fromempty |-> FALSE,
           empty |-> FALSE, hast |-> FALSE, hasi |-> FALSE, days |-> 0,
           cutoff |-> Stamp(0, 0), count |-> 0, raw |-> <<>>,
           rep |-> FALSE, prev |-> None, since |-> 0, day |-> 0,
           seen |-> {}]

NoLast == [call |-> NoCall, outcome |-> "none", result |-> None]

\* A second caller on its own connection: idle, or inside the transaction
\* of cache_data with the rows still to insert and the table as its own
\* connection sees it.
NoOther == [pc |-> "idle", ticker |-> <<>>, interval |-> "", todo |-> <<>>,
            batch |-> <<>>, view |-> {}, at |-> Stamp(0, 0), n |-> 0,
            done |-> ""]

\* store  : the rows of table stock_data
\* today  : date.today()
\* clock  : the tick of the day, as datetime.now() reads it
\* last   : the last completed call and its outcome, until the next call begins
\* pre    : the store as it was before the last step of that call
\* ncalls : calls made so far that can write to the store
\* other  : the second caller
Init ==
  /\ store = {}
  /\ today = 0
  /\ clock = 0
  /\ pc = "idle"
  /\ req = NoCall
  /\ last = NoLast
  /\ pre = {}
  /\ ncalls = 0
  /\ other = NoOther

\* Midnight passes between two calls.
NextDay ==
  /\ pc = "idle"
  /\ today < MaxDay
  /\ today' = today + 1
  /\ clock' = 0
  /\ UNCHANGED <<store, pc, req, last, pre, ncalls, other>>

\* Time passes between two calls.
Tick ==
  /\ pc = "idle"
  /\ clock < MaxTick
  /\ clock' = clock + 1
  /\ UNCHANGED <<store, today, pc, req, last, pre, ncalls, other>>

\* no other connection holds the write lock of the database file
Unlocked == other.pc # "tx"

\* a call returns or raises
Finish(call, outcome, result) ==
  /\ pc' = "idle"
  /\ req' = NoCall
  /\ last' = [call |-> call, outcome |-> outcome, result |-> result]
  /\ pre' = store

\* ---------------------------------------------------------------------
\* CacheManager.cache_data
\* ---------------------------------------------------------------------
\* slip: the key's series is replaced by the batch instead of merged
CacheDataReplacesSeries(st, t, i, df, at) ==
  InsertAll(st \ KeyRows(st, t, i), t, i, DataframeToRows(df, at))

\* the rows of the batch upserted in one transaction
CacheDataRows(st, t, i, df, at) == InsertAll(st, t, i, DataframeToRows(df, at))

DirectPut(t, i, df) ==
  [NoCall EXCEPT !.op = "cache_data", !.ticker = t, !.interval = i, !.df = df]

\* df.empty: warning and return
CacheDataEmpty(t, i) ==
  /\ pc = "idle"
  /\ ncalls < MaxCalls
  /\ ncalls' = ncalls + 1
  /\ Finish(DirectPut(t, i, <<>>), "empty", None)
  /\ UNCHANGED <<store, today, clock, other>>

\* the transaction commits
CacheDataCommit(t, i, df) ==
  /\ pc = "idle"
  /\ Unlocked
  /\ ncalls < MaxCalls
  /\ DOMAIN df # {}
  /\ ncalls' = ncalls + 1
  /\ clock' = clock + 1
  /\ store' = CacheDataRows(store, t, i, df, Stamp(today, clock))
  /\ Finish([DirectPut(t, i, df) EXCEPT
               !.putok = TRUE,
               !.dup = /\ last.call.op = "cache_data"
                       /\ last.outcome = "stored"
                       /\ last.call.ticker = t
                       /\ last.call.interval = i
                       /\ last.call.df = df],
            "stored", None)
  /\ UNCHANGED <<today, other>>

\* sqlite3 raises inside the try (connect, execute or commit): the
\* connection context rolls the transaction back, the except logs, and
\* cache_data returns normally.
CacheDataFail(t, i, df) ==
  /\ pc = "idle"
  /\ ncalls < MaxCalls
  /\ DOMAIN df # {}
  /\ ncalls' = ncalls + 1
  /\ clock' = clock + 1
  /\ Finish([DirectPut(t, i, df) EXCEPT !.fault = TRUE], "failed", None)
  /\ UNCHANGED <<store, today, other>>

\* ---------------------------------------------------------------------
\* CacheManager.get_cached_data: two connections, two steps.  It is called
\* directly (phase "get"), by get_stock_data before the fetch (phase
\* "lookup") and in its except handler (phase "fallback").
\* ---------------------------------------------------------------------
Windows == { w \in Dates \X Dates : w[1] <= w[2] }

\* the batch of the put this call follows: cache_data has just committed
\* for the same key
PutBefore(t, i) ==
  IF /\ last.call.op = "cache_data" /\ last.outcome = "stored"
     /\ last.call.ticker = t /\ last.call.interval = i
  THEN last.call.df ELSE <<>>

\* this call repeats the call that has just returned: same key and window,
\* nothing called in between
GetBefore(t, i, s, e) ==
  /\ last.call.op = "get_cached_data" /\ last.outcome = "ok"
  /\ last.call.ticker = t /\ last.call.interval = i
  /\ last.call.start = s /\ last.call.end = e

GetCachedDataCall(t, i, s, e) ==
  /\ pc = "idle"
  /\ pc' = "coverage"
  /\ req' = [NoCall EXCEPT !.op = "get_cached_data", !.ticker = t,
                           !.interval = i, !.start = s, !.end = e,
                           !.phase = "get",
                           !.putdf = PutBefore(t, i),
                           !.fromempty = (pre = {}),
                           !.day = today,
                           !.seen = {store},
                           !.rep = GetBefore(t, i, s, e),
                           !.prev = IF GetBefore(t, i, s, e)
                                    THEN last.result ELSE None,
                           !.since = IF GetBefore(t, i, s, e)
                                     THEN last.call.day ELSE 0]
  /\ last' = NoLast
  /\ pre' = store
  /\ UNCHANGED <<store, today, clock, ncalls, other>>

\* slip: the fallback returns whatever rows of the window are stored,
\* covered or not
LookupReturnsAnyRows(res) ==
  CASE req.phase = "get" ->
         Finish(req, "ok", res)
    [] req.phase = "lookup" ->
         IF res.some
         THEN Finish([req EXCEPT !.looked = TRUE, !.look1 = res,
                                 !.source = "cache"], "ok", res)
         ELSE /\ pc' = "fetch"
              /\ req' = [req EXCEPT !.looked = TRUE, !.look1 = res]
              /\ UNCHANGED <<last, pre>>
    [] req.phase = "fallback" ->
         LET rows == QueryRows(store, req.ticker, req.interval,
                               req.start, req.end)
         IN IF DOMAIN rows # {}
            THEN Finish([req EXCEPT !.source = "fallback"], "ok",
                        Some(RowsToDataframe(rows)))
            ELSE Finish(req, "fetch_error", None)

\* get_cached_data has returned res to its caller
LookupReturns(res) ==
  CASE req.phase = "get" ->
         Finish(req, "ok", res)
    [] req.phase = "lookup" ->
         IF res.some
         THEN Finish([req EXCEPT !.looked = TRUE, !.look1 = res,
                                 !.source = "cache"], "ok", res)
         ELSE /\ pc' = "fetch"
              /\ req' = [req EXCEPT !.looked = TRUE, !.look1 = res]
              /\ UNCHANGED <<last, pre>>
    [] req.phase = "fallback" ->
         IF res.some
         THEN Finish([req EXCEPT !.source = "fallback"], "ok", res)
         ELSE Finish(req, "fetch_error", None)

\* first connection: _check_data_coverage says no
CoverageMiss ==
  /\ pc = "coverage"
  /\ ~CheckDataCoverage(store, req.ticker, req.interval, req.start, req.end)
  /\ LookupReturns(None)
  /\ UNCHANGED <<store, today, clock, ncalls, other>>

CoverageHit ==
  /\ pc = "coverage"
  /\ CheckDataCoverage(store, req.ticker, req.interval, req.start, req.end)
  /\ pc' = "rows"
  /\ UNCHANGED <<store, today, clock, req, last, pre, ncalls, other>>

\* second connection: the row query; an empty result is None
RowsQuery ==
  /\ pc = "rows"
  /\ LET rows == QueryRows(store, req.ticker, req.interval, req.start, req.end)
     IN IF DOMAIN rows = {} THEN LookupReturns(None)
        ELSE LookupReturns(Some(RowsToDataframe(rows)))
  /\ UNCHANGED <<store, today, clock, ncalls, other>>

\* sqlite3 raises in either query: neither get_cached_data nor
\* get_stock_data catches it there, the error reaches the caller.
StorageError ==
  /\ pc \in {"coverage", "rows"}
  /\ Finish([req EXCEPT !.fault = TRUE], "storage_error", None)
  /\ UNCHANGED <<store, today, clock, ncalls, other>>

\* ---------------------------------------------------------------------
\* CacheManager.clear_cache
\* ---------------------------------------------------------------------
\* an Optional[str] argument: None, or a string, which may be empty
NoTicker == [some |-> FALSE, s |-> <<>>]
NoInterval == [some |-> FALSE, s |-> ""]
TickerArg(t) == [some |-> TRUE, s |-> t]
IntervalArg(i) == [some |-> TRUE, s |-> i]

\* "if ticker", "if interval": None and the empty string are both false
TruthyTicker(t) == t.some /\ Len(t.s) > 0
TruthyInterval(i) == i.some /\ i.s # ""

\* the rows the DELETE statement chosen by the if/elif chain removes
ClearCacheRows(st, t, i) ==
  IF TruthyTicker(t) /\ TruthyInterval(i)
  THEN { r \in st : r.ticker = t.s /\ r.interval = i.s }
  ELSE IF TruthyTicker(t) THEN { r \in st : r.ticker = t.s }
  ELSE IF TruthyInterval(i) THEN { r \in st : r.interval = i.s }
  ELSE st

ClearCall(t, i) ==
  [NoCall EXCEPT !.op = "clear_cache", !.ticker = t.s, !.interval = i.s,
                 !.hast = t.some, !.hasi = i.some]

\* the DELETE commits; clear_cache has no return statement
ClearCacheCommit(t, i) ==
  /\ pc = "idle"
  /\ Unlocked
  /\ ncalls < MaxCalls
  /\ ncalls' = ncalls + 1
  /\ store' = store \ ClearCacheRows(store, t, i)
  /\ Finish(ClearCall(t, i), "cleared", None)
  /\ UNCHANGED <<today, clock, other>>

\* sqlite3 raises: rolled back, logged, clear_cache returns normally
ClearCacheFail(t, i) ==
  /\ pc = "idle"
  /\ ncalls < MaxCalls
  /\ ncalls' = ncalls + 1
  /\ Finish([ClearCall(t, i) EXCEPT !.fault = TRUE], "failed", None)
  /\ UNCHANGED <<store, today, clock, other>>

\* ---------------------------------------------------------------------
\* CacheManager.cleanup_old_cache
\* ---------------------------------------------------------------------
\* DATETIME(text) of SQLite: 'YYYY-MM-DD HH:MM:SS', the fraction of the
\* second is dropped
Datetime(at) == [day |-> at.day, sec |-> at.seq \div TicksPerSecond]

\* DATETIME(a) < DATETIME(b)
DatetimeLess(a, b) ==
  \/ Datetime(a).day < Datetime(b).day
  \/ Datetime(a).day = Datetime(b).day /\ Datetime(a).sec < Datetime(b).sec

\* (datetime.now() - timedelta(days=days_old)).isoformat()
CutoffDate(days_old, d, c) == Stamp(d - days_old, c)

\* WHERE DATETIME(cached_at) < DATETIME(cutoff_date)
OldRows(st, cutoff) == { r \in st : DatetimeLess(r.cached_at, cutoff) }

CleanupCall(days_old) ==
  [NoCall EXCEPT !.op = "cleanup_old_cache", !.days = days_old,
                 !.cutoff = CutoffDate(days_old, today, clock)]

\* the rows are counted, deleted, the count is logged; nothing is returned
CleanupOldCacheCommit(days_old) ==
  /\ pc = "idle"
  /\ Unlocked
  /\ ncalls < MaxCalls
  /\ ncalls' = ncalls + 1
  /\ LET cutoff == CutoffDate(days_old, today, clock)
     IN /\ store' = store \ OldRows(store, cutoff)
        /\ Finish([CleanupCall(days_old) EXCEPT
                     !.count = Cardinality(OldRows(store, cutoff))],
                  "cleaned", None)
  /\ UNCHANGED <<today, clock, other>>

\* sqlite3 raises: rolled back, logged, cleanup_old_cache returns normally
CleanupOldCacheFail(days_old) ==
  /\ pc = "idle"
  /\ ncalls < MaxCalls
  /\ ncalls' = ncalls + 1
  /\ Finish([CleanupCall(days_old) EXCEPT !.fault = TRUE], "failed", None)
  /\ UNCHANGED <<store, today, clock, other>>

\* ---------------------------------------------------------------------
\* CacheManager.get_cache_info
\* ---------------------------------------------------------------------
\* GROUP BY ticker, interval
Groups(st) == { <<r.ticker, r.interval>> : r \in st }

\* MAX(cached_at)
LatestStamp(S) == CHOOSE a \in S : \A b \in S : ~Earlier(a, b)

\* slip: COUNT(*) taken over the table, not over the group
SummaryCountsTable(st, k) ==
  [ticker |-> k[1], interval |-> k[2],
   start_date |-> SetMin({ r.date : r \in KeyRows(st, k[1], k[2]) }),
   end_date |-> SetMax({ r.date : r \in KeyRows(st, k[1], k[2]) }),
   row_count |-> Cardinality(st),
   last_cached |-> LatestStamp({ r.cached_at : r \in KeyRows(st, k[1], k[2]) })]

\* one row of the summary query
Summary(st, k) ==
  [ticker |-> k[1], interval |-> k[2],
   start_date |-> SetMin({ r.date : r \in KeyRows(st, k[1], k[2]) }),
   end_date |-> SetMax({ r.date : r \in KeyRows(st, k[1], k[2]) }),
   row_count |-> Cardinality(KeyRows(st, k[1], k[2])),
   last_cached |-> LatestStamp({ r.cached_at : r \in KeyRows(st, k[1], k[2]) })]

Summaries(st) == { Summary(st, k) : k \in Groups(st) }

\* ORDER BY last_cached DESC: every order of the summaries in which no entry
\* comes before one cached later
EntryLists(st) ==
  { es \in [1..Cardinality(Groups(st)) -> Summaries(st)] :
      /\ \A e \in Summaries(st) : \E n \in DOMAIN es : es[n] = e
      /\ \A m, n \in DOMAIN es :
           m < n => ~Earlier(es[m].last_cached, es[n].last_cached) }

\* the dict returned from the try block
CacheInfo(st, entries) ==
  [error |-> FALSE, total_entries |-> Cardinality(st),
   unique_datasets |-> Len(entries), entries |-> entries]

\* the dict returned from the except block
CacheInfoError == [error |-> TRUE, total_entries |-> 0, entries |-> <<>>]

GetCacheInfoOk ==
  /\ pc = "idle"
  /\ \E es \in EntryLists(store) :
       Finish([NoCall EXCEPT !.op = "get_cache_info"], "ok",
              CacheInfo(store, es))
  /\ UNCHANGED <<store, today, clock, ncalls, other>>

\* sqlite3 or stat() raises inside the try
GetCacheInfoFail ==
  /\ pc = "idle"
  /\ Finish([NoCall EXCEPT !.op = "get_cache_info", !.fault = TRUE], "ok",
            CacheInfoError)
  /\ UNCHANGED <<store, today, clock, ncalls, other>>

\* ---------------------------------------------------------------------
\* StockDataService.get_stock_data
\* ---------------------------------------------------------------------
RawTickers == { <<>>, <<" ">>, <<"a", " ">> }
DayChar(n) == Digits[n + 1]
Periods == { <<DayChar(n), "d">> : n \in 1..MaxDay }
              \cup { <<"1", "m", "o">>, <<"x", "d">>, <<"5">> }
Intervals == { "1d", "1wk", "1h" }

Service(rt, p, i, f) ==
  [NoCall EXCEPT !.op = "get_stock_data", !.ticker = rt, !.period = p,
                 !.interval = i, !.force = f]

\* _validate_parameters or _calculate_date_range raises ValueError
GetStockDataInvalid(rt, p, i, f) ==
  /\ pc = "idle"
  /\ ~(ValidParameters(rt, p, i) /\ PeriodParses(p))
  /\ Finish([NoCall EXCEPT !.op = "get_stock_data", !.ticker = rt,
                           !.raw = rt],
            "invalid", None)
  /\ UNCHANGED <<store, today, clock, ncalls, other>>

\* how this request follows the last completed one: that one fetched and
\* cached for the same key on the same day, with the same or an earlier start
After(t, i, s) ==
  IF /\ last.call.op = "get_stock_data" /\ last.outcome = "ok"
     /\ last.call.source = "fresh" /\ last.call.putok
     /\ last.call.ticker = t /\ last.call.interval = i
     /\ last.call.end = today
  THEN IF s = last.call.start THEN "same"
       ELSE IF s > last.call.start THEN "shorter" ELSE ""
  ELSE ""

\* slip: force_refresh ignored, the cache is always consulted
FirstStepIgnoresForce(f) == "coverage"

\* "if not force_refresh": where the request goes after the window is known
FirstStep(f) == IF f THEN "fetch" ELSE "coverage"

\* the first lookup of a request made now would be served from the cache
WouldHit(t, i, w, f) ==
  /\ ~f
  /\ CheckDataCoverage(store, t, i, w[1], w[2])
  /\ DOMAIN QueryRows(store, t, i, w[1], w[2]) # {}

\* validated, window computed, cache consulted unless force_refresh; once
\* MaxCalls calls are made, only a request the cache serves is taken up
GetStockDataStart(rt, p, i, f) ==
  /\ pc = "idle"
  /\ ValidParameters(rt, p, i) /\ PeriodParses(p)
  /\ \/ ncalls < MaxCalls
     \/ WouldHit(NormalTicker(rt), i, CalculateDateRange(p, today), f)
  /\ ncalls' = IF ncalls < MaxCalls THEN ncalls + 1 ELSE ncalls
  /\ LET w == CalculateDateRange(p, today)
         t == NormalTicker(rt)
     IN req' = [Service(rt, p, i, f) EXCEPT
                  !.ticker = t, !.raw = rt, !.start = w[1], !.end = w[2],
                  !.phase = "lookup",
                  !.after = After(t, i, w[1])]
  /\ pc' = FirstStep(f)
  /\ last' = NoLast
  /\ pre' = store
  /\ UNCHANGED <<store, today, clock, other>>

\* fetch_from_api returns a non-empty DataFrame of bars up to today
FetchOk(df) ==
  /\ pc = "fetch"
  /\ ValidParameters(req.ticker, req.period, req.interval)
  /\ DOMAIN df # {}
  /\ req' = [req EXCEPT !.nfetch = @ + 1, !.fetched = TRUE, !.df = df]
  /\ pc' = "put"
  /\ UNCHANGED <<store, today, clock, last, pre, ncalls, other>>

\* slip: the except handler re-raises without the fallback lookup
FetchFailNoFallback ==
  /\ pc = "fetch"
  /\ Finish([req EXCEPT !.nfetch = @ + 1], "fetch_error", None)
  /\ UNCHANGED <<store, today, clock, ncalls, other>>

\* slip: rows received before the failure are written
FetchFailWritesPartial ==
  /\ pc = "fetch"
  /\ req' = [req EXCEPT !.nfetch = @ + 1, !.phase = "fallback"]
  /\ pc' = "coverage"
  /\ store' = InsertOrReplace(store, req.ticker, req.interval,
                 [date |-> today, val |-> 1, cached_at |-> Stamp(today, clock)])
  /\ UNCHANGED <<today, clock, last, pre, ncalls, other>>

\* fetch_from_api raises: its own validation, the upstream call, or an
\* empty result; the except handler looks the cache up again
FetchFail ==
  /\ pc = "fetch"
  /\ req' = [req EXCEPT !.nfetch = @ + 1, !.phase = "fallback"]
  /\ pc' = "coverage"
  /\ UNCHANGED <<store, today, clock, last, pre, ncalls, other>>

\* slip: an empty result is handed on as a successful fetch
FetchEmptyReturned ==
  /\ pc = "fetch"
  /\ req' = [req EXCEPT !.nfetch = @ + 1, !.fetched = TRUE, !.empty = TRUE]
  /\ pc' = "put"
  /\ UNCHANGED <<store, today, clock, last, pre, ncalls, other>>

\* the upstream answers with no row, or with none left after cleaning:
\* fetch_from_api raises, the except handler looks the cache up again
FetchEmpty ==
  /\ pc = "fetch"
  /\ req' = [req EXCEPT !.nfetch = @ + 1, !.phase = "fallback",
                        !.empty = TRUE]
  /\ pc' = "coverage"
  /\ UNCHANGED <<store, today, clock, last, pre, ncalls, other>>

\* slip: the fetched rows are returned unfiltered
FilterRangeAll(df, s, e) == df

\* fresh_data[(index.date >= start_date) & (index.date <= end_date)]
FilterRange(df, s, e) ==
  LET Keep(r) == r.date >= s /\ r.date <= e IN SelectSeq(df, Keep)

\* cache_data commits, then the fresh rows of the window are returned
PutCommit ==
  /\ pc = "put"
  /\ Unlocked
  /\ clock' = clock + 1
  /\ store' = CacheDataRows(store, req.ticker, req.interval, req.df,
                            Stamp(today, clock))
  /\ Finish([req EXCEPT !.putok = TRUE, !.source = "fresh"], "ok",
            Some(FilterRange(req.df, req.start, req.end)))
  /\ UNCHANGED <<today, ncalls, other>>

\* slip: the storage failure leaves cache_data and reaches the except
\* handler of get_stock_data
PutFailRaises ==
  /\ pc = "put"
  /\ clock' = clock + 1
  /\ req' = [req EXCEPT !.fault = TRUE, !.phase = "fallback"]
  /\ pc' = "coverage"
  /\ UNCHANGED <<store, today, last, pre, ncalls, other>>

\* cache_data swallows a storage failure; the fresh rows are still returned
PutFail ==
  /\ pc = "put"
  /\ clock' = clock + 1
  /\ Finish([req EXCEPT !.fault = TRUE, !.source = "fresh"], "ok",
            Some(FilterRange(req.df, req.start, req.end)))
  /\ UNCHANGED <<store, today, ncalls, other>>

\* ---------------------------------------------------------------------
\* The second caller: cache_data statement by statement, and evictions
\* ---------------------------------------------------------------------
MaxOther == 1

\* the caller's lookup in progress has one more committed table behind it
Observe(st) ==
  IF pc # "idle" /\ req.op = "get_cached_data"
  THEN [req EXCEPT !.seen = @ \cup {st}]
  ELSE req

\* rows built, connection opened, the transaction begins and takes the
\* write lock
OtherBegin(t, i, df) ==
  /\ other.pc = "idle"
  /\ other.n < MaxOther
  /\ DOMAIN df # {}
  /\ other' = [NoOther EXCEPT
                 !.pc = "tx", !.ticker = t, !.interval = i,
                 !.todo = DataframeToRows(df, Stamp(today, clock)),
                 !.batch = DataframeToRows(df, Stamp(today, clock)),
                 !.view = store, !.at = Stamp(today, clock),
                 !.n = other.n + 1]
  /\ clock' = clock + 1
  /\ UNCHANGED <<store, today, pc, req, last, pre, ncalls>>

\* slip: autocommit, every INSERT OR REPLACE is published at once
OtherInsertAutocommit ==
  /\ other.pc = "tx"
  /\ other.todo # <<>>
  /\ other' = [other EXCEPT
                 !.view = InsertOrReplace(@, other.ticker, other.interval,
                                          Head(other.todo)),
                 !.todo = Tail(@)]
  /\ store' = InsertOrReplace(store, other.ticker, other.interval,
                              Head(other.todo))
  /\ req' = Observe(store')
  /\ UNCHANGED <<today, clock, pc, last, pre, ncalls>>

\* one INSERT OR REPLACE of the loop, inside the transaction
OtherInsert ==
  /\ other.pc = "tx"
  /\ other.todo # <<>>
  /\ other' = [other EXCEPT
                 !.view = InsertOrReplace(@, other.ticker, other.interval,
                                          Head(other.todo)),
                 !.todo = Tail(@)]
  /\ UNCHANGED <<store, today, clock, pc, req, last, pre, ncalls>>

\* conn.commit(): the whole batch becomes visible
OtherCommit ==
  /\ other.pc = "tx"
  /\ other.todo = <<>>
  /\ store' = other.view
  /\ other' = [NoOther EXCEPT !.n = other.n, !.done = "committed"]
  /\ req' = Observe(store')
  /\ UNCHANGED <<today, clock, pc, last, pre, ncalls>>

\* an exception inside the with block: rolled back, logged
OtherRollback ==
  /\ other.pc = "tx"
  /\ other' = [NoOther EXCEPT !.n = other.n, !.done = "rolledback"]
  /\ UNCHANGED <<store, today, clock, pc, req, last, pre, ncalls>>

\* clear_cache by the second caller
OtherClear(t, i) ==
  /\ other.pc = "idle"
  /\ other.n < MaxOther
  /\ store' = store \ ClearCacheRows(store, t, i)
  /\ other' = [NoOther EXCEPT !.n = other.n + 1, !.done = "cleared"]
  /\ req' = Observe(store')
  /\ UNCHANGED <<today, clock, pc, last, pre, ncalls>>

\* cleanup_old_cache by the second caller
OtherCleanup(days_old) ==
  /\ other.pc = "idle"
  /\ other.n < MaxOther
  /\ store' = store \ OldRows(store, CutoffDate(days_old, today, clock))
  /\ other' = [NoOther EXCEPT !.n = other.n + 1, !.done = "cleaned"]
  /\ req' = Observe(store')
  /\ UNCHANGED <<today, clock, pc, last, pre, ncalls>>

\* StockDataService.clear_cache hands its arguments on as they are
ServiceClearCache(t, i) == ClearCacheCommit(t, i)

\* StockDataService.cleanup_old_cache
ServiceCleanupOldCache(days_old) == CleanupOldCacheCommit(days_old)

\* stock.history(period=...) of an upstream that has a bar for every day:
\* the bars of the last n days
PeriodDates(period, day) ==
  { d \in Dates :
      /\ d > day - ParseInt(PeriodNumber(period)) * PeriodUnit(period)
      /\ d <= day }

PeriodBars(period, day) == MkDf(PeriodDates(period, day), 1)

\* ---------------------------------------------------------------------
\* Specifications
\* ---------------------------------------------------------------------
\* the service and its callers
Next ==
  \/ NextDay
  \/ \E rt \in RawTickers, p \in Periods, i \in Intervals, f \in BOOLEAN :
        GetStockDataInvalid(rt, p, i, f)
  \/ \E rt \in RawTickers, p \in Periods, i \in Intervals, f \in BOOLEAN :
        GetStockDataStart(rt, p, i, f)
  \/ CoverageMiss
  \/ CoverageHit
  \/ RowsQuery
  \/ StorageError
  \/ \E df \in DataFramesOn(0..today) : FetchOk(df)
  \/ FetchFail
  \/ FetchEmpty
  \/ PutCommit
  \/ PutFail

Spec == Init /\ [][Next]_vars

\* the cache manager called directly
NextCache ==
  \/ \E k \in CacheKeys : CacheDataEmpty(k[1], k[2])
  \/ \E k \in CacheKeys, df \in DataFrames : CacheDataCommit(k[1], k[2], df)
  \/ \E k \in CacheKeys, df \in DataFrames : CacheDataFail(k[1], k[2], df)
  \/ \E k \in CacheKeys, w \in Windows : GetCachedDataCall(k[1], k[2], w[1], w[2])
  \/ CoverageMiss
  \/ CoverageHit
  \/ RowsQuery
  \/ StorageError

SpecCache == Init /\ [][NextCache]_vars

\* the administrative surface of the cache manager: puts, then evictions and
\* inspection, while time passes
EvictKeys == { <<<<>>, "1d">>, <<<<"A">>, "1d">>, <<<<"A">>, "1wk">>,
               <<<<"B">>, "1d">> }
EvictFrames == { MkDf(S, v) : S \in (SUBSET (0..1)) \ {{}}, v \in Vals }
TickerArgs == { NoTicker, TickerArg(<<>>), TickerArg(<<"A">>), TickerArg(<<"B">>) }
IntervalArgs == { NoInterval, IntervalArg(""), IntervalArg("1d"), IntervalArg("1wk") }
AgeDays == 0..1

NextEvict ==
  \/ NextDay
  \/ Tick
  \/ \E k \in EvictKeys, df \in EvictFrames : CacheDataCommit(k[1], k[2], df)
  \/ \E t \in TickerArgs, i \in IntervalArgs : ClearCacheCommit(t, i)
  \/ \E t \in TickerArgs, i \in IntervalArgs : ClearCacheFail(t, i)
  \/ \E d \in AgeDays : CleanupOldCacheCommit(d)
  \/ \E d \in AgeDays : CleanupOldCacheFail(d)
  \/ GetCacheInfoOk
  \/ GetCacheInfoFail

SpecEvict == Init /\ [][NextEvict]_vars

\* one series of the cache manager as it ages: puts, lookups and evictions
\* while time passes
AgeFrames == { MkDf(S, 1) : S \in (SUBSET Dates) \ {{}} }

NextAge ==
  \/ NextDay
  \/ Tick
  \/ \E df \in AgeFrames : CacheDataCommit(<<"A">>, "1d", df)
  \/ \E w \in Windows : GetCachedDataCall(<<"A">>, "1d", w[1], w[2])
  \/ CoverageMiss
  \/ CoverageHit
  \/ RowsQuery
  \/ ClearCacheCommit(TickerArg(<<"A">>), NoInterval)
  \/ \E d \in AgeDays : CleanupOldCacheCommit(d)

SpecAge == Init /\ [][NextAge]_vars

\* two callers on one database file: lookups and puts of the first, puts
\* and evictions of the second
OtherFrames == { MkDf(S, 2) : S \in (SUBSET Dates) \ {{}} }

NextConc ==
  \/ Tick
  \/ \E df \in AgeFrames : CacheDataCommit(<<"A">>, "1d", df)
  \/ \E w \in Windows : GetCachedDataCall(<<"A">>, "1d", w[1], w[2])
  \/ CoverageMiss
  \/ CoverageHit
  \/ RowsQuery
  \/ \E df \in OtherFrames : OtherBegin(<<"A">>, "1d", df)
  \/ OtherInsert
  \/ OtherCommit
  \/ OtherRollback
  \/ OtherClear(TickerArg(<<"A">>), NoInterval)
  \/ OtherCleanup(0)

SpecConc == Init /\ [][NextConc]_vars

\* the service over days with an upstream that always answers in full,
\* and its administrative calls between the requests
AdminTickers == { <<"a", " ">>, <<"A">> }
AdminPeriods == { <<DayChar(n), "d">> : n \in 1..MaxDay }

NextAdmin ==
  \/ NextDay
  \/ \E rt \in AdminTickers, p \in AdminPeriods, f \in BOOLEAN :
        GetStockDataStart(rt, p, "1d", f)
  \/ CoverageMiss
  \/ CoverageHit
  \/ RowsQuery
  \/ FetchOk(PeriodBars(req.period, today))
  \/ PutCommit
  \/ \E rt \in AdminTickers :
        ServiceClearCache(TickerArg(rt), IntervalArg("1d"))
  \/ \E d \in AgeDays : ServiceCleanupOldCache(d)

SpecAdmin == Init /\ [][NextAdmin]_vars

TypeOK ==
  /\ today \in 0..MaxDay
  /\ ncalls \in 0..MaxCalls
  /\ pc \in {"idle", "coverage", "rows", "fetch", "put"}

\* ---------------------------------------------------------------------
\* What the store holds for a key and a window, stated on the rows
\* ---------------------------------------------------------------------
RowsOf(st, call) ==
  { r \in st : r.ticker = call.ticker /\ r.interval = call.interval }

InWindow(st, call) ==
  { r \in RowsOf(st, call) : call.start <= r.date /\ r.date <= call.end }

\* some stored date at or before the start, some at or after the end
Spans(st, call) ==
  /\ \E r \in RowsOf(st, call) : r.date <= call.start
  /\ \E r \in RowsOf(st, call) : r.date >= call.end

Ascending(df) == \A m, n \in DOMAIN df : m < n => df[m].date < df[n].date

Bars(df) == { <<df[n].date, df[n].val>> : n \in DOMAIN df }

\* df is exactly the rows R: every row once, ascending by date
IsRows(df, R) ==
  /\ Ascending(df)
  /\ Bars(df) = { <<r.date, r.val>> : r \in R }
  /\ Len(df) = Cardinality(R)

Served == last.call.op = "get_stock_data" /\ last.outcome # "invalid"

FetchFailed == Served /\ last.call.nfetch >= 1 /\ ~last.call.fetched

\* ---------------------------------------------------------------------
\* Claims
\* ---------------------------------------------------------------------
\* C1: a request that reaches the cache step calls the Fetcher if and only
\* if force_refresh is set or the initial lookup returned None; a request
\* whose initial lookup returned rows ends successfully with exactly those
\* rows and no Fetcher call; no request calls the Fetcher twice.
C1_FetchIffForcedOrMiss ==
  /\ req.nfetch <= 1
  /\ Served =>
       /\ last.call.nfetch <= 1
       /\ (last.call.nfetch = 1) <=>
            (last.call.force \/ (last.call.looked /\ ~last.call.look1.some))
       /\ (last.call.looked /\ last.call.look1.some) =>
            /\ last.outcome = "ok"
            /\ last.result = last.call.look1
            /\ IsRows(last.result.rows, InWindow(store, last.call))
            /\ last.call.nfetch = 0

C1_Witness ==
  /\ Served /\ last.call.looked /\ last.call.look1.some
  /\ last.call.nfetch = 0 /\ last.outcome = "ok"

\* C2: when the Fetcher fails and the store has rows for the key that span
\* the window and lie in it, the request returns those rows; when the store
\* has no row for the key, the request raises the Fetcher's failure.
\* Stated for requests whose fallback queries themselves ran.
C2_FallbackOnFetchFailure ==
  (FetchFailed /\ ~last.call.fault) =>
    /\ (Spans(store, last.call) /\ InWindow(store, last.call) # {}) =>
         /\ last.outcome = "ok"
         /\ last.result.some
         /\ IsRows(last.result.rows, InWindow(store, last.call))
    /\ RowsOf(store, last.call) = {} => last.outcome = "fetch_error"

C2_Witness ==
  /\ FetchFailed /\ ~last.call.fault
  /\ last.outcome = "ok" /\ last.call.source = "fallback"
  /\ last.result.some

\* C3: a validated request raises only when the Fetcher failed and the
\* fallback lookup returned None.
C3_OnlyFetchErrorRaised ==
  (Served /\ last.outcome # "ok") =>
    (last.outcome = "fetch_error" /\ FetchFailed)

\* C4: a request that repeats, on the same day, the window of the request
\* just served by fetching and caching, or asks for a shorter one, is served
\* from the cache without a Fetcher call.
C4_RepeatServedFromCache ==
  (Served /\ last.call.after \in {"same", "shorter"}
          /\ ~last.call.force /\ ~last.call.fault) =>
    (last.outcome = "ok" /\ last.call.source = "cache" /\ last.call.nfetch = 0)

\* ---------------------------------------------------------------------
\* Claims on the cache manager called directly
\* ---------------------------------------------------------------------
Got == last.call.op = "get_cached_data" /\ last.outcome = "ok"

\* the get follows a committed put on its key
GotAfterPut == Got /\ DOMAIN last.call.putdf # {}

Stored == last.call.op = "cache_data" /\ last.outcome = "stored"

BatchDates == DfDates(last.call.putdf)

\* C5: on an empty store, after a put of rows whose dates lie inside [s,e],
\* a get for [s,e] returns all of those rows in ascending date order.
C5_PutThenGetSameWindow ==
  (GotAfterPut /\ last.call.fromempty
     /\ \A d \in BatchDates : last.call.start <= d /\ d <= last.call.end) =>
    (last.result.some /\ last.result.rows = last.call.putdf)

\* C6 as stated: after a put of rows spanning [minD,maxD], every get for a
\* window inside [minD,maxD] returns the stored rows of the window.
C6_EveryWindowInSpanReturnsRows ==
  (GotAfterPut /\ (\E d \in BatchDates : d <= last.call.start)
               /\ (\E d \in BatchDates : d >= last.call.end)) =>
    /\ last.result.some
    /\ IsRows(last.result.rows, InWindow(store, last.call))

\* C6 amended: after a put of rows spanning [minD,maxD], a get for a window
\* inside [minD,maxD] that holds at least one stored date returns exactly the
\* stored rows of the window, each date once, ascending, with no Fetcher
\* call; a get for a window that holds no stored date returns None.
C6_WindowInSpanReturnsRowsOrNone ==
  (GotAfterPut /\ (\E d \in BatchDates : d <= last.call.start)
               /\ (\E d \in BatchDates : d >= last.call.end)) =>
    /\ last.call.nfetch = 0
    /\ IF InWindow(store, last.call) # {}
       THEN /\ last.result.some
            /\ IsRows(last.result.rows, InWindow(store, last.call))
       ELSE last.result = None

\* the window holds rows of the batch and rows stored before it
C6_Witness ==
  /\ GotAfterPut /\ last.result.some
  /\ \E d \in BatchDates : d <= last.call.start
  /\ \E d \in BatchDates : d >= last.call.end
  /\ \E r \in InWindow(store, last.call) : r.date \in BatchDates
  /\ \E r \in InWindow(store, last.call) : r.date \notin BatchDates

\* C7: get returns None exactly when the key has no stored row, or every
\* stored date is after s, or every stored date is before e, or no stored
\* date lies in [s,e]; otherwise it returns rows.
C7_NoneExactlyWhenNotCovered ==
  Got =>
    ((~last.result.some) <=>
       \/ RowsOf(store, last.call) = {}
       \/ \A r \in RowsOf(store, last.call) : r.date > last.call.start
       \/ \A r \in RowsOf(store, last.call) : r.date < last.call.end
       \/ InWindow(store, last.call) = {})

\* rows returned with both boundary dates equal to the stored min and max
C7_Witness ==
  /\ Got /\ last.result.some
  /\ \A r \in RowsOf(store, last.call) :
        last.call.start <= r.date /\ r.date <= last.call.end
  /\ \E r \in RowsOf(store, last.call) : r.date = last.call.start
  /\ \E r \in RowsOf(store, last.call) : r.date = last.call.end
  /\ last.call.start < last.call.end

\* a stored row without its last-write timestamp
Bar(r) == [ticker |-> r.ticker, interval |-> r.interval, date |-> r.date,
           val |-> r.val]

\* C8: a put that repeats the batch of the put just before it, on the same
\* key, leaves the number of stored rows, their dates and their values as
\* they were.
C8_DuplicatePutIdempotent ==
  (Stored /\ last.call.dup) =>
    /\ Cardinality(store) = Cardinality(pre)
    /\ { Bar(r) : r \in store } = { Bar(r) : r \in pre }

C8_Witness ==
  /\ Stored /\ last.call.dup
  /\ Len(last.call.df) >= 2

\* C9: the store never holds two rows with the same ticker, interval and
\* date, and after a put each date of the batch is stored with the batch's
\* value.
C9_OneRowPerDateLastWriteWins ==
  /\ \A r, q \in store :
       (r.ticker = q.ticker /\ r.interval = q.interval /\ r.date = q.date)
         => r = q
  /\ Stored =>
       \A n \in DOMAIN last.call.df :
         \E r \in RowsOf(store, last.call) :
           r.date = last.call.df[n].date /\ r.val = last.call.df[n].val

\* the put overwrote a row that held another value
C9_Witness ==
  /\ Stored
  /\ \E n \in DOMAIN last.call.df :
       \E q \in RowsOf(pre, last.call) :
         q.date = last.call.df[n].date /\ q.val # last.call.df[n].val

Untouched(st, call) ==
  { r \in st : ~(r.ticker = call.ticker /\ r.interval = call.interval
                   /\ r.date \in DfDates(call.df)) }

\* C10: a put changes only the rows of its key at the dates of its batch;
\* every other row keeps its value and its last-write timestamp.
C10_PutFrame ==
  (last.call.op = "cache_data") =>
    Untouched(store, last.call) = Untouched(pre, last.call)

\* the put overwrote a row of its key and found another one at a date that
\* is not in the batch
C10_Witness ==
  /\ Stored
  /\ \E r \in Untouched(pre, last.call) :
       r.ticker = last.call.ticker /\ r.interval = last.call.interval
  /\ \E r \in pre : r \notin Untouched(pre, last.call)

\* ---------------------------------------------------------------------
\* Claims on eviction and inspection
\* ---------------------------------------------------------------------
Cleared == last.call.op = "clear_cache" /\ last.outcome = "cleared"

\* the rows a partial key matches: an argument that was not given matches
\* every row
Matching(st, call) ==
  { r \in st : /\ call.hast => r.ticker = call.ticker
               /\ call.hasi => r.interval = call.interval }

\* C11: a clear_cache that completes removes exactly the rows matching the
\* ticker and interval it was given, the rows of one key, of one ticker, of
\* one interval, or all rows, and leaves every other row as it was.
C11_ClearRemovesExactlyMatching ==
  Cleared => store = pre \ Matching(pre, last.call)


Evicted ==
  \/ Cleared
  \/ last.call.op = "cleanup_old_cache" /\ last.outcome = "cleaned"

\* a call that returns the number n
Returned(n) == [some |-> TRUE, rows |-> n]

\* C12: clear_cache, in each of its four variants, and cleanup_old_cache
\* return the number of rows the call deleted.
C12_EvictionReturnsCount ==
  Evicted =>
    /\ last.result.some
    /\ last.result = Returned(Cardinality(pre) - Cardinality(store))

Cleaned == last.call.op = "cleanup_old_cache" /\ last.outcome = "cleaned"

\* C13: cleanup_old_cache(age) removes, across all keys, exactly the rows
\* whose cached_at is earlier than now - age; every other row stays as it
\* was.
C13_CleanupRemovesExactlyOlder ==
  Cleaned =>
    store = { r \in pre : ~Earlier(r.cached_at, last.call.cutoff) }

Info == last.call.op = "get_cache_info"

\* the entry e summarises the rows R of one key
Summarises(e, R) ==
  /\ \A r \in R : e.start_date <= r.date /\ r.date <= e.end_date
  /\ \E r \in R : r.date = e.start_date
  /\ \E r \in R : r.date = e.end_date
  /\ e.row_count = Cardinality(R)
  /\ \A r \in R : ~Earlier(e.last_cached, r.cached_at)
  /\ \E r \in R : r.cached_at = e.last_cached

\* C14: get_cache_info returns and never raises; when the store could not
\* be read the result has an error field, total_entries 0 and no entries;
\* otherwise it has the number of stored rows and, for every key with rows,
\* exactly one entry with the key's min date, max date, row count and
\* latest cached_at.  The store is left as it was.
C14_CacheInfo ==
  Info =>
    /\ last.outcome = "ok"
    /\ store = pre
    /\ IF last.call.fault
       THEN /\ last.result.error
            /\ last.result.total_entries = 0
            /\ last.result.entries = <<>>
       ELSE /\ ~last.result.error
            /\ last.result.total_entries = Cardinality(store)
            /\ Len(last.result.entries) =
                 Cardinality({ <<r.ticker, r.interval>> : r \in store })
            /\ \A r \in store :
                 \E n \in DOMAIN last.result.entries :
                   /\ last.result.entries[n].ticker = r.ticker
                   /\ last.result.entries[n].interval = r.interval
                   /\ Summarises(last.result.entries[n], RowsOf(store, r))

\* two keys are summarised, one of them with rows at two dates
C14_Witness ==
  /\ Info /\ ~last.call.fault
  /\ Len(last.result.entries) = 2
  /\ \E r, q \in store :
       /\ r.ticker = q.ticker /\ r.interval = q.interval
       /\ r.date # q.date

\* ---------------------------------------------------------------------
\* Claims on failures and rejected requests
\* ---------------------------------------------------------------------
\* the request fetched, and the write of the fetched rows failed
PutFailed == Served /\ last.call.fetched /\ last.call.fault

\* C15: when the storage write inside cache_data fails, cache_data returns
\* normally and the get_stock_data that called it returns the fetched rows
\* of the requested window, in ascending order; the store is not changed.
C15_FailedPutStillReturnsFresh ==
  PutFailed =>
    /\ last.outcome = "ok"
    /\ last.result.some
    /\ Ascending(last.result.rows)
    /\ Bars(last.result.rows) =
         { b \in Bars(last.call.df) :
             last.call.start <= b[1] /\ b[1] <= last.call.end }
    /\ store = pre

\* some fetched rows lie in the window and some before it
C15_Witness ==
  /\ PutFailed
  /\ last.result.some
  /\ Len(last.result.rows) >= 1
  /\ Len(last.result.rows) < Len(last.call.df)

\* C16: a get_cached_data during which storage fails, in the coverage query
\* or in the row query, returns None and does not raise.
C16_StorageFailureIsMiss ==
  (last.call.op = "get_cached_data" /\ last.call.fault) =>
    (last.outcome = "ok" /\ last.result = None)

\* the request has passed validation: it is at one of its cache or Fetcher
\* steps, or has completed one
Started(call) == call.op = "get_stock_data" /\ call.phase # ""

\* C17: a request with an empty symbol, an interval outside 1d, 1wk, 1mo, or
\* a period that gives no date window is rejected before any cache read,
\* cache write or Fetcher call: a rejected request has read, fetched and
\* written nothing, and no request with such an argument reaches a cache or
\* Fetcher step.
C17_InvalidRejectedFirst ==
  /\ (last.call.op = "get_stock_data" /\ last.outcome = "invalid") =>
       /\ ~last.call.looked /\ last.call.nfetch = 0 /\ ~last.call.putok
       /\ ~last.call.fault /\ last.call.phase = ""
       /\ store = pre
  /\ \A call \in {req, last.call} :
       Started(call) =>
         /\ Len(call.raw) > 0
         /\ call.interval \in {"1d", "1wk", "1mo"}
         /\ Len(call.period) >= 2
         /\ \E n \in 0..9 : \E u \in {<<"y">>, <<"m", "o">>, <<"d">>} :
              call.period = <<Digits[n + 1]>> \o u

\* a request is rejected while the store holds rows
C17_Witness ==
  /\ last.call.op = "get_stock_data" /\ last.outcome = "invalid"
  /\ store # {}

\* C18: every cache lookup, cache write and Fetcher call of get_stock_data
\* is made with a non-empty symbol.
C18_SymbolNeverEmpty ==
  (req.op = "get_stock_data" /\ pc \in {"coverage", "rows", "fetch", "put"}) =>
    Len(req.ticker) > 0

\* C19: an empty Fetcher result is a failure, it is neither returned as
\* fresh data nor written; cache_data with an empty batch leaves the store
\* as it was; a row set returned from the cache is never empty.
C19_EmptyNeverCachedOrServed ==
  /\ (Served /\ last.call.empty) =>
       /\ last.call.source # "fresh"
       /\ ~last.call.putok
       /\ store = pre
       /\ last.outcome = "ok" => (last.result.some /\ Len(last.result.rows) >= 1)
  /\ (last.call.op = "cache_data" /\ last.outcome = "empty") => store = pre
  /\ (Served /\ last.call.source \in {"cache", "fallback"}) =>
       (last.result.some /\ Len(last.result.rows) >= 1)

\* the Fetcher's result was empty and the request was served from the cache
C19_Witness ==
  /\ Served /\ last.call.empty
  /\ last.outcome = "ok" /\ last.call.source = "fallback"

\* C20: a result returned through the fallback after a Fetcher failure is
\* marked, it is not the value a plain cache hit returns for the same rows.
C20_FallbackMarkedStale ==
  (Served /\ last.call.source = "fallback") =>
    last.result # Some(RowsToDataframe(QueryRows(store, last.call.ticker,
                         last.call.interval, last.call.start, last.call.end)))

\* ---------------------------------------------------------------------
\* Claims on what a request reads, writes and returns
\* ---------------------------------------------------------------------
\* C22: within get_stock_data the store changes only in the put that
\* follows a successful fetch; the lookups and a failed fetch leave every
\* row as it was.
C22_OnlyPutWrites ==
  [][store' # store =>
       /\ pc = "put" /\ req.fetched
       /\ last'.call.putok]_vars

\* a request whose fetch failed has ended and the stored rows are still there
C22_Witness ==
  /\ FetchFailed
  /\ last.call.looked
  /\ store # {}

Fresh == Served /\ last.call.source = "fresh"

\* C24 as stated: on Fetcher success the rows returned are the rows stored
\* for the key with dates in the window right after the put.
C24_FreshResultIsStoredSlice ==
  Fresh =>
    /\ last.result.some
    /\ IsRows(last.result.rows, InWindow(store, last.call))

\* C24 amended: on Fetcher success the rows returned are the fetched rows
\* with dates in the window; when the put committed each of them is the row
\* stored for its date, and they are all the stored rows of the window if
\* the store held no other date of the key in the window; when the put
\* failed the store is as it was.
C24_FreshResultIsFetchedSlice ==
  Fresh =>
    /\ last.result.some
    /\ Ascending(last.result.rows)
    /\ Bars(last.result.rows) =
         { b \in Bars(last.call.df) :
             last.call.start <= b[1] /\ b[1] <= last.call.end }
    /\ IF last.call.putok
       THEN /\ \A b \in Bars(last.result.rows) :
                 \E r \in InWindow(store, last.call) :
                   r.date = b[1] /\ r.val = b[2]
            /\ (\A q \in InWindow(pre, last.call) :
                  q.date \in DfDates(last.call.df)) =>
                 IsRows(last.result.rows, InWindow(store, last.call))
       ELSE store = pre

\* the fetched rows were merged into rows the key already had
C24_Witness ==
  /\ Fresh /\ last.call.putok
  /\ RowsOf(pre, last.call) # {}
  /\ Len(last.result.rows) >= 1

\* C25: when the Fetcher fails and the store holds rows of the key inside
\* the window, the request returns those rows, whether or not the stored
\* dates span the window; it raises only when there are none.
C25_FallbackReturnsWhateverIsStored ==
  (FetchFailed /\ ~last.call.fault) =>
    IF InWindow(store, last.call) # {}
    THEN /\ last.outcome = "ok"
         /\ last.result.some
         /\ IsRows(last.result.rows, InWindow(store, last.call))
    ELSE last.outcome = "fetch_error"

Hit == Served /\ last.outcome = "ok" /\ last.call.source = "cache"

\* C27 as stated: a cache hit is complete: it holds every date of the
\* window for which the Fetcher, asked for the request's period, would
\* return a row.
C27_HitIsComplete ==
  Hit =>
    \A d \in PeriodDates(last.call.period, today) :
      (last.call.start <= d /\ d <= last.call.end) =>
         d \in DfDates(last.result.rows)

\* C27 amended: a cache hit returns exactly the rows stored for the key in
\* the window, the stored dates reach the start or earlier and the end or
\* later, and the store is left as it was; dates of the window that no
\* stored row has are not in the result.
C27_HitIsStoredSlice ==
  Hit =>
    /\ last.result.some
    /\ IsRows(last.result.rows, InWindow(store, last.call))
    /\ Spans(store, last.call)
    /\ store = pre

\* a hit that misses a day between two stored days
C27_Witness ==
  /\ Hit
  /\ \E d \in PeriodDates(last.call.period, today) :
       /\ last.call.start < d /\ d < last.call.end
       /\ d \notin DfDates(last.result.rows)
       /\ \E r \in InWindow(store, last.call) : r.date < d
       /\ \E r \in InWindow(store, last.call) : r.date > d

\* C29: after StockDataService.clear_cache(ticker, interval) no row is left
\* under the key get_stock_data uses for that ticker string and interval.
C29_ClearUsesNormalisedKey ==
  (/\ last.call.op = "clear_cache" /\ last.outcome = "cleared"
   /\ last.call.hast /\ last.call.hasi) =>
     ~\E r \in store : /\ r.ticker = NormalTicker(last.call.ticker)
                       /\ r.interval = last.call.interval

\* ---------------------------------------------------------------------
\* Claims on the age of rows
\* ---------------------------------------------------------------------
\* C26: what get_cached_data returns is fixed by the dates and values of
\* the rows stored for the key, whatever their cached_at and whatever the
\* time of the call; a call that repeats the previous one, with nothing but
\* time in between, returns the same; a stored date of a key is gone only
\* after clear_cache or cleanup_old_cache.
C26_NoAgeBasedExpiry ==
  /\ Got =>
       /\ last.result.some <=>
            (Spans(store, last.call) /\ InWindow(store, last.call) # {})
       /\ last.result.some =>
            IsRows(last.result.rows, InWindow(store, last.call))
       /\ last.call.rep => last.result = last.call.prev
  /\ last.call.op \notin {"clear_cache", "cleanup_old_cache"} =>
       \A r \in pre : \E q \in store :
          q.ticker = r.ticker /\ q.interval = r.interval /\ q.date = r.date

\* the same lookup returned rows on an earlier day and again today
C26_Witness ==
  /\ Got /\ last.call.rep
  /\ last.call.since < today
  /\ last.result.some
  /\ \A r \in InWindow(store, last.call) : r.cached_at.day < today

\* ---------------------------------------------------------------------
\* Claims on two callers
\* ---------------------------------------------------------------------
\* the whole batch of the second caller's put is in the table st
BatchIn(st) ==
  \A n \in DOMAIN other.batch :
    [ticker |-> other.ticker, interval |-> other.interval,
     date |-> other.batch[n].date, val |-> other.batch[n].val,
     cached_at |-> other.batch[n].cached_at] \in st

BatchDatesOf == { other.batch[n].date : n \in DOMAIN other.batch }

\* C21: a put is atomic: while its transaction is open no row of its batch
\* is in the table the lookups read; the table changes in one step, to hold
\* the whole batch, with every other row as it was; and no other write
\* lands while the transaction is open.
C21_PutIsAtomic ==
  /\ [](other.pc = "tx" => \A r \in store : r.cached_at # other.at)
  /\ [][(other.pc = "tx" /\ store' # store) =>
          /\ other'.pc = "idle"
          /\ BatchIn(store')
          /\ \A r \in store :
               (r.ticker # other.ticker \/ r.interval # other.interval
                  \/ r.date \notin BatchDatesOf) => r \in store'
          /\ \A r \in store' \ store : r.cached_at = other.at]_vars

\* a lookup is between its two queries while the second caller's
\* transaction has inserted some rows of its batch and not yet all
C21_Witness ==
  /\ other.pc = "tx"
  /\ other.view # store
  /\ other.todo # <<>>
  /\ pc = "rows"

\* C23: the coverage test of a lookup decides on the rows stored at that
\* moment: it passes exactly when some stored date of the key is at or
\* before the start and some at or after the end, whatever was stored when
\* the call began.
C23_CoverageNeverStale ==
  [][(pc = "coverage" /\ pc' # "coverage") =>
        (pc' = "rows" <=> Spans(store, req))]_vars

\* the coverage test passed on rows committed after the call began
C23_Witness ==
  /\ pc = "rows"
  /\ req.op = "get_cached_data"
  /\ ~Spans(pre, req)
  /\ Spans(store, req)

\* what a lookup returns when both its queries read the table st
SnapshotResult(st, call, res) ==
  /\ res.some <=> (Spans(st, call) /\ InWindow(st, call) # {})
  /\ res.some => IsRows(res.rows, InWindow(st, call))

\* C28: every result of get_cached_data is the result of the lookup on one
\* committed state of the table that existed during the call.
C28_LookupIsSnapshot ==
  Got => \E st \in last.call.seen : SnapshotResult(st, last.call, last.result)
====
